---- MODULE Spec2Model ----
(***************************************************************************)
(* A model of py_google_fit/GoogleFit.py: the GoogleFit client object, its *)
(* authentication, the aggregate request it builds, the reducer            *)
(* _count_total and the four convenience queries.                          *)
(*                                                                         *)
(* Program state: _service (the session handle).  Environment: the         *)
(* credentials file, the local time zone, the wall clock and the reply of  *)
(* the remote aggregate endpoint.  `last` records the most recent call on  *)
(* the client object: its arguments, the request it sent (if any), the     *)
(* value _count_total produced (if reached) and how the call ended.        *)
(*                                                                         *)
(* Numbers are exact rationals [t, n, d] tagged with their Python type     *)
(* ("int" or "float"); float rounding is not modelled.                     *)
(***************************************************************************)
EXTENDS Integers, Sequences, FiniteSets, TLC

VARIABLES service, storage, tz, now, remote, last

vars == <<service, storage, tz, now, remote, last>>

----------------------------------------------------------------------------
(* Bounds of the model *)

\* longest point list a response carries
MaxPoints == 3
\* largest n passed to rolling_daily_average / average_for_n_days_ago
MaxN == 3
\* number of consecutive calendar days the wall clock is drawn from
NumDays == 3

----------------------------------------------------------------------------
(* Python values *)

None == [t |-> "NoneType"]

Int_(i) == [t |-> "int", n |-> i, d |-> 1]

Abs(i) == IF i < 0 THEN 0 - i ELSE i

RECURSIVE Gcd(_, _)
Gcd(a, b) == IF b = 0 THEN a ELSE Gcd(b, a % b)

\* the rational n/d (d # 0) in lowest terms with a positive denominator
Rat(type, n, d) ==
    LET g == Gcd(Abs(n), Abs(d))
        s == IF d < 0 THEN 0 - 1 ELSE 1
    IN  [t |-> type, n |-> (s * n) \div g, d |-> (s * d) \div g]

Float_(n, d) == Rat("float", n, d)

Ret(v) == [kind |-> "return", val |-> v]
Raise(e) == [kind |-> "raise", err |-> e]

\* int(x): truncation toward zero
PyInt(x) ==
    Int_(IF x.n >= 0 THEN x.n \div x.d ELSE 0 - ((0 - x.n) \div x.d))

\* float(x)
PyFloat(x) == [t |-> "float", n |-> x.n, d |-> x.d]

\* a + b on numbers: a float when either operand is one
PyAdd(a, b) ==
    Rat(IF a.t = "float" \/ b.t = "float" THEN "float" ELSE "int",
        a.n * b.d + b.n * a.d, a.d * b.d)

\* a / k for an int k (true division)
PyTrueDiv(a, k) ==
    IF a.t \notin {"int", "float"} THEN Raise("TypeError")
    ELSE IF k = 0 THEN Raise("ZeroDivisionError")
    ELSE Ret(Rat("float", a.n, a.d * k))

Digits == <<"0", "1", "2", "3", "4", "5", "6", "7", "8", "9">>

RECURSIVE StrNat(_)
StrNat(i) ==
    IF i < 10 THEN <<Digits[i + 1]>>
    ELSE Append(StrNat(i \div 10), Digits[(i % 10) + 1])

\* str(i) of an int: its decimal digits, "-" first when negative
Str(i) == IF i < 0 THEN <<"-">> \o StrNat(0 - i) ELSE StrNat(i)

\* d[k] of a dict
HasKey(d, k) == k \in DOMAIN d

----------------------------------------------------------------------------
(* GFitDataType *)

WEIGHT == [name |-> "com.google.weight", kind |-> "float", key |-> "fpVal"]
STEPS == [name |-> "com.google.step_count.delta", kind |-> "int", key |-> "intVal"]

GFitDataType == {WEIGHT, STEPS}

\* data_type.value[1](x)
Coerce(data_type, x) == IF data_type.kind = "int" THEN PyInt(x) ELSE PyFloat(x)

----------------------------------------------------------------------------
(* datetime: a naive local wall-clock time [day, sec, us], day counted     *)
(* from 1970-01-01                                                        *)

\* variant of ReplaceMidnight: only hour and minute are reset
ReplaceHourAndMinute(dt) == [day |-> dt.day, sec |-> dt.sec % 60, us |-> dt.us]

\* dt.replace(hour=0, minute=0, second=0, microsecond=0)
ReplaceMidnight(dt) == [day |-> dt.day, sec |-> 0, us |-> 0]

\* dt + timedelta(days=k) / dt - timedelta(days=k) with k negated
AddDays(dt, k) == [day |-> dt.day + k, sec |-> dt.sec, us |-> dt.us]

\* The local zone: walls before tz.at have UTC offset tz.base, walls from
\* tz.at on have tz.base + tz.shift (one daylight-saving transition).
UtcOffset(dt) ==
    IF dt.day < tz.at.day \/ (dt.day = tz.at.day /\ dt.sec < tz.at.sec)
    THEN tz.base ELSE tz.base + tz.shift

\* to_epoch(dt) = int(dt.timestamp()) * 1000
ToEpoch(dt) ==
    LET whole == dt.day * 86400 + dt.sec - UtcOffset(dt)
        trunc == IF whole < 0 /\ dt.us > 0 THEN whole + 1 ELSE whole
    IN  trunc * 1000

----------------------------------------------------------------------------
(* The request and the reducer *)

\* GoogleFit._execute_aggregate_request: the body is built first, then
\* self._service.users() is evaluated, which raises on a None _service
\* before anything is sent; execute() raises or returns the remote's reply.
ExecuteAggregateRequest(data_type, start_date, end_date) ==
    LET body == [aggregateBy |-> <<[dataTypeName |-> data_type]>>,
                 endTimeMillis |-> Str(ToEpoch(end_date)),
                 startTimeMillis |-> Str(ToEpoch(start_date))]
        window == [start |-> start_date, end |-> end_date]
    IN  IF service = None
        THEN [sent |-> FALSE, request |-> None, window |-> window,
              response |-> Raise("AttributeError")]
        ELSE [sent |-> TRUE, request |-> body, window |-> window,
              response |-> remote]

\* variant of ExtractPoints: a missing 'bucket' reads as no points
ExtractPointsOrEmpty(resp) ==
    IF ~HasKey(resp, "bucket") THEN Ret(<<>>)
    ELSE IF Len(resp.bucket) = 0 THEN Raise("IndexError")
    ELSE IF ~HasKey(resp.bucket[1], "dataset") THEN Raise("KeyError")
    ELSE IF Len(resp.bucket[1].dataset) = 0 THEN Raise("IndexError")
    ELSE IF ~HasKey(resp.bucket[1].dataset[1], "point") THEN Raise("KeyError")
    ELSE Ret(resp.bucket[1].dataset[1].point)

\* GoogleFit._extract_points: resp['bucket'][0]['dataset'][0]['point']
ExtractPoints(resp) ==
    IF ~HasKey(resp, "bucket") THEN Raise("KeyError")
    ELSE IF Len(resp.bucket) = 0 THEN Raise("IndexError")
    ELSE IF ~HasKey(resp.bucket[1], "dataset") THEN Raise("KeyError")
    ELSE IF Len(resp.bucket[1].dataset) = 0 THEN Raise("IndexError")
    ELSE IF ~HasKey(resp.bucket[1].dataset[1], "point") THEN Raise("KeyError")
    ELSE Ret(resp.bucket[1].dataset[1].point)

\* variant of PointValue: reads the last value entry, not the first
PointValueLast(data_type, p) ==
    IF ~HasKey(p, "value") THEN Raise("KeyError")
    ELSE IF Len(p.value) = 0 THEN Raise("IndexError")
    ELSE IF ~HasKey(p.value[Len(p.value)], data_type.key) THEN Raise("KeyError")
    ELSE Ret(p.value[Len(p.value)][data_type.key])

\* _['value'][0][data_type.value[2]] of one point
PointValue(data_type, p) ==
    IF ~HasKey(p, "value") THEN Raise("KeyError")
    ELSE IF Len(p.value) = 0 THEN Raise("IndexError")
    ELSE IF ~HasKey(p.value[1], data_type.key) THEN Raise("KeyError")
    ELSE Ret(p.value[1][data_type.key])

\* the loop of _count_total from point i on, cum being the sum so far
RECURSIVE Accumulate(_, _, _, _)
Accumulate(data_type, points, i, cum) ==
    IF i > Len(points) THEN Ret(cum)
    ELSE LET v == PointValue(data_type, points[i])
         IN  IF v.kind = "raise" THEN v
             ELSE Accumulate(data_type, points, i + 1,
                             PyAdd(cum, Coerce(data_type, v.val)))

\* variant of NoPoints: the empty-list test is missing
NoPointsUnchecked(points) == FALSE

\* the empty-list test of _count_total
NoPoints(points) == Len(points) = 0

\* GoogleFit._count_total
CountTotal(data_type, resp) ==
    LET points == ExtractPoints(resp)
    IN  IF points.kind = "raise" THEN points
        ELSE IF NoPoints(points.val)
        THEN Ret([t |-> "str", s |-> "no data found"])
        ELSE LET cum == Accumulate(data_type, points.val, 1, Int_(0))
             IN  IF cum.kind = "raise" THEN cum
                 ELSE IF data_type = WEIGHT
                 THEN PyTrueDiv(cum.val, Len(points.val))
                 ELSE cum

\* GoogleFit._avg_for_response
AvgForResponse(data_type, begin, end) ==
    LET ex == ExecuteAggregateRequest(data_type.name, begin, end)
        reduced == IF ex.response.kind = "raise" THEN None
                   ELSE CountTotal(data_type, ex.response.val)
    IN  [sent |-> ex.sent, request |-> ex.request, window |-> ex.window,
         reduced |-> reduced,
         outcome |-> IF ex.response.kind = "raise" THEN ex.response
                     ELSE reduced]

----------------------------------------------------------------------------
(* The four queries, as functions of the client's state and the clock *)

\* GoogleFit.average_today
AverageTodayCall(data_type) ==
    LET begin_today == ReplaceMidnight(now)
        end_today == AddDays(begin_today, 1)
    IN  AvgForResponse(data_type, begin_today, end_today)

\* variant of AverageForDateCall: the date is not reset to midnight
AverageForDateCallRaw(data_type, dt) ==
    AvgForResponse(data_type, dt, AddDays(dt, 1))

\* GoogleFit.average_for_date
AverageForDateCall(data_type, dt) ==
    LET begin == ReplaceMidnight(dt)
        end == AddDays(begin, 1)
    IN  AvgForResponse(data_type, begin, end)

\* variant of RollingResult: divides by n for every data type
RollingResultAlwaysDivides(data_type, avg, n) == PyTrueDiv(avg, n)

\* the final branch of rolling_daily_average on the window's result
RollingResult(data_type, avg, n) ==
    IF data_type = STEPS THEN PyTrueDiv(avg, n) ELSE Ret(avg)

\* GoogleFit.rolling_daily_average
RollingDailyAverageCall(data_type, n) ==
    LET begin_today == ReplaceMidnight(now)
        begin_period == AddDays(begin_today, 0 - n)
        r == AvgForResponse(data_type, begin_period, begin_today)
    IN  IF r.outcome.kind = "raise" THEN r
        ELSE [r EXCEPT !.outcome = RollingResult(data_type, r.outcome.val, n)]

\* variant of NDaysAgo: one day too far back
NDaysAgoOffByOne(n) == AddDays(now, 0 - (n + 1))

\* now - timedelta(days=n) in average_for_n_days_ago
NDaysAgo(n) == AddDays(now, 0 - n)

\* GoogleFit.average_for_n_days_ago
AverageForNDaysAgoCall(data_type, n) ==
    AverageForDateCall(data_type, NDaysAgo(n))

----------------------------------------------------------------------------
(* The environment the client runs in *)

Point(entries) == [value |-> entries]

\* the points a response may carry: a weight of 70.0, step counts 1000
\* and 2000 (the latter with a second value entry), and a point carrying
\* both field keys (3000 steps, 72.0)
PointPool ==
    { Point(<<[fpVal |-> Float_(70, 1)]>>),
      Point(<<[intVal |-> Int_(1000)]>>),
      Point(<<[intVal |-> Int_(2000)], [intVal |-> Int_(5)]>>),
      Point(<<[intVal |-> Int_(3000), fpVal |-> Float_(72, 1)]>>) }

PointLists == UNION { [1..k -> PointPool] : k \in 0..MaxPoints }

Response(points) == [bucket |-> <<[dataset |-> <<[point |-> points]>>]>>]

\* replies of the shape {bucket: [{dataset: [{point: [...]}]}]}
WellShaped == { Response(points) : points \in PointLists }

\* replies whose bucket / dataset / point structure is broken
Malformed ==
    { [error |-> "x"],
      [bucket |-> <<>>],
      [bucket |-> <<[startTimeMillis |-> "0"]>>],
      [bucket |-> <<[dataset |-> <<>>]>>],
      [bucket |-> <<[dataset |-> <<[dataSourceId |-> "x"]>>]>>] }

\* replies whose points lack the value structure
BadPoints ==
    { Response(<<[startTimeNanos |-> "0"]>>), Response(<<Point(<<>>)>>) }

\* what execute() does: returns a reply or raises
Replies ==
    { Ret(r) : r \in WellShaped \cup Malformed \cup BadPoints }
        \cup {Raise("HttpError")}

FewReplies ==
    { Ret(Response(<<>>)),
      Ret(Response(<<Point(<<[intVal |-> Int_(1000)]>>)>>)),
      Raise("HttpError") }

Midnight(d) == [day |-> d, sec |-> 0, us |-> 0]

\* local zones: UTC; one that springs forward an hour (02:00 -> 03:00) on
\* day 9; one that falls back an hour (02:00 -> 01:00) on day 9
Zones ==
    { [base |-> 0, shift |-> 0, at |-> Midnight(0)],
      [base |-> 3600, shift |-> 3600, at |-> [day |-> 9, sec |-> 10800, us |-> 0]],
      [base |-> 0 - 14400, shift |-> 0 - 3600, at |-> [day |-> 9, sec |-> 7200, us |-> 0]] }

Days == 8..(7 + NumDays)

\* wall-clock readings of datetime.now(): midnight, just after, noon and
\* the last microsecond of the day (none inside a transition hour)
Clock ==
    { [day |-> d, sec |-> t[1], us |-> t[2]] :
        d \in Days,
        t \in {<<0, 0>>, <<1, 500000>>, <<43200, 0>>, <<86399, 999999>>} }

\* the n a caller passes (a number of days to go back)
Ns == 0..MaxN

----------------------------------------------------------------------------
(* State machine *)

Call(op, data_type, n, dt, r) ==
    [op |-> op, data_type |-> data_type, n |-> n, dt |-> dt,
     authenticated |-> service # None,
     sent |-> r.sent, request |-> r.request, window |-> r.window,
     reduced |-> r.reduced, outcome |-> r.outcome]

NoRequest(outcome) ==
    [sent |-> FALSE, request |-> None, window |-> None, reduced |-> None,
     outcome |-> outcome]

\* GoogleFit.__init__: _service is None; the environment is arbitrary
Init ==
    /\ service = None
    /\ \/ /\ storage \in {"none", "invalid", "valid"}
          /\ tz \in Zones /\ now \in Clock /\ remote \in FewReplies
       \/ /\ storage = "valid"
          /\ tz = [base |-> 3600, shift |-> 3600,
                   at |-> [day |-> 9, sec |-> 10800, us |-> 0]]
          /\ now = [day |-> 9, sec |-> 43200, us |-> 0]
          /\ remote \in Replies
    /\ last = Call("__init__", None, 0, None, NoRequest(Ret(None)))

\* variant of AuthenticateResult: _service is assigned before build returns
AuthenticateResultEarlyAssign(flow_ok, build_ok) ==
    LET need_flow == storage \in {"none", "invalid"}
    IN  IF need_flow /\ ~flow_ok
        THEN [service |-> service, storage |-> storage,
              outcome |-> Raise("SystemExit")]
        ELSE IF ~build_ok
        THEN [service |-> [t |-> "Resource"], storage |-> "valid",
              outcome |-> Raise("HttpError")]
        ELSE [service |-> [t |-> "Resource"], storage |-> "valid",
              outcome |-> Ret(None)]

\* GoogleFit.authenticate: storage.get(); run_flow when there is no valid
\* stored credential (flow_ok: the user completes it, and it stores the
\* credential; otherwise run_flow exits); build (build_ok: the discovery
\* call succeeds); the assignment to _service is the last statement.
AuthenticateResult(flow_ok, build_ok) ==
    LET need_flow == storage \in {"none", "invalid"}
    IN  IF need_flow /\ ~flow_ok
        THEN [service |-> service, storage |-> storage,
              outcome |-> Raise("SystemExit")]
        ELSE IF ~build_ok
        THEN [service |-> service, storage |-> "valid",
              outcome |-> Raise("HttpError")]
        ELSE [service |-> [t |-> "Resource"], storage |-> "valid",
              outcome |-> Ret(None)]

Authenticate ==
    \E flow_ok \in BOOLEAN, build_ok \in BOOLEAN :
        LET a == AuthenticateResult(flow_ok, build_ok)
        IN  /\ service' = a.service
            /\ storage' = a.storage
            /\ last' = Call("authenticate", None, 0, None, NoRequest(a.outcome))
            /\ UNCHANGED <<tz, now, remote>>

AverageToday ==
    \E data_type \in GFitDataType :
        /\ last' = Call("average_today", data_type, 0, None,
                        AverageTodayCall(data_type))
        /\ UNCHANGED <<service, storage, tz, now, remote>>

AverageForDate ==
    \E data_type \in GFitDataType, dt \in Clock :
        /\ last' = Call("average_for_date", data_type, 0, dt,
                        AverageForDateCall(data_type, dt))
        /\ UNCHANGED <<service, storage, tz, now, remote>>

RollingDailyAverage ==
    \E data_type \in GFitDataType, n \in Ns :
        /\ last' = Call("rolling_daily_average", data_type, n, None,
                        RollingDailyAverageCall(data_type, n))
        /\ UNCHANGED <<service, storage, tz, now, remote>>

AverageForNDaysAgo ==
    \E data_type \in GFitDataType, n \in Ns :
        /\ last' = Call("average_for_n_days_ago", data_type, n, None,
                        AverageForNDaysAgoCall(data_type, n))
        /\ UNCHANGED <<service, storage, tz, now, remote>>

Next ==
    \/ Authenticate
    \/ AverageToday
    \/ AverageForDate
    \/ RollingDailyAverage
    \/ AverageForNDaysAgo

Spec == Init /\ [][Next]_vars

----------------------------------------------------------------------------
(* Vocabulary of the properties *)

QueryOps ==
    {"average_today", "average_for_date", "rolling_daily_average",
     "average_for_n_days_ago"}

Sentinel == [t |-> "str", s |-> "no data found"]

\* the remote replied, with the shape {bucket: [{dataset: [{point: ...}]}]}
ReplyWellShaped == remote.kind = "return" /\ remote.val \in WellShaped

ReplyPoints == remote.val.bucket[1].dataset[1].point

\* the last call was a query that sent its request and got such a reply
Answered == last.op \in QueryOps /\ last.sent /\ ReplyWellShaped

\* every point of the reply has a first value entry under the field key
Readable(data_type) ==
    \A i \in 1..Len(ReplyPoints) : data_type.key \in DOMAIN ReplyPoints[i].value[1]

\* the exact sum, as <<numerator, denominator>>, of the first value entries
\* of points i.. under the key
RECURSIVE SumFirst(_, _, _)
SumFirst(points, key, i) ==
    IF i > Len(points) THEN <<0, 1>>
    ELSE LET v == points[i].value[1][key]
             rest == SumFirst(points, key, i + 1)
         IN  <<v.n * rest[2] + rest[1] * v.d, v.d * rest[2]>>

\* the number x equals num / den
Equals(x, num, den) == x.t \in {"int", "float"} /\ x.n * den = num * x.d

\* milliseconds since the epoch of local midnight of a day
LocalMidnightMs(day) ==
    LET off == IF day < tz.at.day \/ (day = tz.at.day /\ 0 < tz.at.sec)
               THEN tz.base ELSE tz.base + tz.shift
    IN  (day * 86400 - off) * 1000

\* milliseconds since the epoch of the current instant, truncated
NowMs ==
    LET off == IF now.day < tz.at.day
                  \/ (now.day = tz.at.day /\ now.sec < tz.at.sec)
               THEN tz.base ELSE tz.base + tz.shift
    IN  (now.day * 86400 + now.sec - off) * 1000

\* the request for the one-day window that starts at local midnight of day
DayRequest(data_type, day) ==
    [aggregateBy |-> <<[dataTypeName |-> data_type.name]>>,
     endTimeMillis |-> Str(LocalMidnightMs(day + 1)),
     startTimeMillis |-> Str(LocalMidnightMs(day))]

DayWindow(day) == [start |-> Midnight(day), end |-> Midnight(day + 1)]

\* the int a decimal string denotes
RECURSIVE ParseNat(_)
ParseNat(str) ==
    IF Len(str) = 0 THEN 0
    ELSE ParseNat(SubSeq(str, 1, Len(str) - 1)) * 10
         + (CHOOSE i \in 0..9 : Digits[i + 1] = str[Len(str)])

ParseInt(str) ==
    IF Len(str) > 0 /\ str[1] = "-" THEN 0 - ParseNat(Tail(str))
    ELSE ParseNat(str)

----------------------------------------------------------------------------
(* Properties of the reducer and of an empty or malformed reply *)

\* the n of the last call is at least 1 where the query takes an n
NAtLeastOne ==
    last.op \in {"rolling_daily_average", "average_for_n_days_ago"} => last.n >= 1

\* C1: whenever an authenticated client runs any of the four queries (with
\* n >= 1 where the query takes an n), for WEIGHT or STEPS, and the reply
\* has an empty point list, the call returns the sentinel 'no data found'
\* and does not raise.
C1_NoDataNeverRaises ==
    (Answered /\ ReplyPoints = <<>> /\ NAtLeastOne)
        => last.outcome = Ret(Sentinel)

\* C2: for either data type and any well-shaped reply whose point list is
\* empty, _count_total returns the sentinel 'no data found', not a number
\* and not a fault; and _count_total never ends in a division by zero.
C2_EmptyPointListGivesSentinel ==
    /\ (Answered /\ ReplyPoints = <<>>) => last.reduced = Ret(Sentinel)
    /\ last.reduced # Raise("ZeroDivisionError")

\* C2 witness: _count_total was applied for WEIGHT to a reply with no points
C2_Witness ==
    /\ Answered /\ ReplyPoints = <<>>
    /\ last.data_type = WEIGHT
    /\ last.reduced = Ret(Sentinel)

\* C3: for a reply with at least one point, each point having a first
\* value entry under the data type's field key, _count_total returns, for
\* WEIGHT, the float sum of those first entries divided by the number of
\* points, and for STEPS, the int sum of those first entries, undivided.
C3_ReducerMeanOrSum ==
    (Answered /\ ReplyPoints # <<>> /\ Readable(last.data_type)) =>
        LET sum == SumFirst(ReplyPoints, last.data_type.key, 1)
        IN  /\ last.reduced.kind = "return"
            /\ IF last.data_type = WEIGHT
               THEN /\ last.reduced.val.t = "float"
                    /\ Equals(last.reduced.val, sum[1],
                              sum[2] * Len(ReplyPoints))
               ELSE /\ last.reduced.val.t = "int"
                    /\ Equals(last.reduced.val, sum[1], sum[2])

\* C3 witness: WEIGHT over the points [70.0, 72.0] reduced to 71.0
C3_Witness ==
    /\ Answered
    /\ last.data_type = WEIGHT
    /\ Len(ReplyPoints) = 2
    /\ ReplyPoints[1].value[1] = [fpVal |-> Float_(70, 1)]
    /\ ReplyPoints[2].value[1] = [intVal |-> Int_(3000), fpVal |-> Float_(72, 1)]
    /\ last.reduced = Ret(Float_(71, 1))

\* C8: when the reply lacks 'bucket', or its bucket or dataset list is
\* empty (or lacks 'dataset' / 'point'), _count_total raises a KeyError or
\* IndexError, and every query ends with that same error: no number, no
\* sentinel, no default.
C8_MalformedReplyRaises ==
    (last.op \in QueryOps /\ last.sent
        /\ remote.kind = "return" /\ remote.val \in Malformed)
        => /\ last.reduced \in {Raise("KeyError"), Raise("IndexError")}
           /\ last.outcome = last.reduced

\* C8 witness: a query got a reply without 'bucket' and ended in KeyError
C8_Witness ==
    /\ last.op \in QueryOps /\ last.sent
    /\ remote = Ret([error |-> "x"])
    /\ last.outcome = Raise("KeyError")

----------------------------------------------------------------------------
(* Properties of the four queries *)

\* C4: rolling_daily_average(data_type, n), n # 0, on a reply with at
\* least one point (each readable under the field key) returns, for STEPS,
\* the summed total divided by n, and for WEIGHT, the mean over the points
\* that _count_total produced, not divided by n.  (For n = 0 the quotient
\* by n does not exist; the STEPS division then raises ZeroDivisionError.)
C4_RollingDividesStepsOnly ==
    (Answered /\ last.op = "rolling_daily_average" /\ last.n # 0
        /\ ReplyPoints # <<>> /\ Readable(last.data_type)) =>
        LET sum == SumFirst(ReplyPoints, last.data_type.key, 1)
        IN  /\ last.outcome.kind = "return"
            /\ IF last.data_type = STEPS
               THEN Equals(last.outcome.val, sum[1], sum[2] * last.n)
               ELSE /\ last.outcome = last.reduced
                    /\ Equals(last.outcome.val, sum[1],
                              sum[2] * Len(ReplyPoints))

\* C4 witness: STEPS over a window summing to 6000 with n = 3 gave 2000
C4_Witness ==
    /\ Answered /\ last.op = "rolling_daily_average"
    /\ last.data_type = STEPS /\ last.n = 3
    /\ last.reduced = Ret(Int_(6000))
    /\ last.outcome = Ret(Float_(2000, 1))

\* C5: at every time of day and for every n, the request of
\* rolling_daily_average covers the window from local midnight of the
\* current day minus n days to local midnight of the current day; that
\* end is not later than the current instant, so no instant of the
\* current day lies inside [start, end).
C5_RollingWindowExcludesToday ==
    (last.op = "rolling_daily_average" /\ last.sent) =>
        /\ last.window = [start |-> Midnight(now.day - last.n),
                          end |-> Midnight(now.day)]
        /\ last.request.startTimeMillis = Str(LocalMidnightMs(now.day - last.n))
        /\ last.request.endTimeMillis = Str(LocalMidnightMs(now.day))
        /\ ParseInt(last.request.endTimeMillis) <= NowMs

\* C5 witness: a rolling average asked for in the last microsecond of a day
C5_Witness ==
    /\ last.op = "rolling_daily_average" /\ last.sent
    /\ now.sec = 86399 /\ now.us = 999999
    /\ last.n = 2
    /\ last.window.end = Midnight(now.day)

\* C6: average_today(data_type) and average_for_date(data_type, dt) with
\* dt any time of the current day issue the same request: the window
\* runs from local midnight of the day to that midnight plus one day (24
\* wall-clock hours), and the millisecond fields are the conversions of
\* those two midnights.  In general average_for_date's request depends on
\* dt's date only.
C6_ForDateOfNowIsToday ==
    /\ (last.op = "average_today" /\ last.sent) =>
          /\ last.window = DayWindow(now.day)
          /\ last.request = DayRequest(last.data_type, now.day)
    /\ (last.op = "average_for_date" /\ last.sent) =>
          /\ last.window = DayWindow(last.dt.day)
          /\ last.request = DayRequest(last.data_type, last.dt.day)

\* C6 witness: average_for_date was given the current time, not at midnight
C6_Witness ==
    /\ last.op = "average_for_date" /\ last.sent
    /\ last.dt = now /\ now.sec = 43200
    /\ last.request = DayRequest(last.data_type, now.day)

\* C7: average_for_n_days_ago(data_type, n) queries the window from local
\* midnight of (today - n days) to that midnight plus one day; with n = 0
\* it sends the request average_today(data_type) sends and ends as
\* average_today ends on the same reply.
C7_ZeroDaysAgoIsToday ==
    (last.op = "average_for_n_days_ago") =>
        /\ last.sent =>
              /\ last.window = DayWindow(now.day - last.n)
              /\ last.request = DayRequest(last.data_type, now.day - last.n)
        /\ last.n = 0 =>
              LET today == AverageTodayCall(last.data_type)
              IN  /\ last.sent = today.sent
                  /\ last.request = today.request
                  /\ last.outcome = today.outcome

\* C7 witness: average_for_n_days_ago(STEPS, 0) returned a step count
C7_Witness ==
    /\ last.op = "average_for_n_days_ago" /\ last.n = 0 /\ last.sent
    /\ last.data_type = STEPS
    /\ last.outcome = Ret(Int_(1000))
    /\ now.sec > 0

\* C10: every request any of the four queries issues has
\* startTimeMillis < endTimeMillis, whatever the data type, the date and
\* the integer n (n = 0 included).
C10_StartBeforeEnd ==
    (last.op \in QueryOps /\ last.sent) =>
        ParseInt(last.request.startTimeMillis)
            < ParseInt(last.request.endTimeMillis)

----------------------------------------------------------------------------
(* The session *)

\* C9: a query made while _service is None raises, sends no request and
\* leaves _service None; _service changes only in an authenticate that
\* returns, and an authenticate that raises leaves it as it was.
C9_NoQueryWithoutSession ==
    [][ /\ (service = None /\ last'.op \in QueryOps) =>
              /\ last'.outcome.kind = "raise"
              /\ ~last'.sent /\ last'.request = None
              /\ service' = None
        /\ (service' # service) =>
              /\ last'.op = "authenticate"
              /\ last'.outcome = Ret(None)
              /\ service' # None
        /\ (last'.op = "authenticate" /\ last'.outcome.kind = "raise") =>
              service' = service ]_vars

\* C9 witness: a query on a client whose _service is None, with a stored
\* credential and a remote that would have replied, raised without
\* sending anything
C9_Witness ==
    /\ last.op \in QueryOps
    /\ service = None /\ storage = "valid"
    /\ ~last.sent
    /\ last.outcome = Raise("AttributeError")
    /\ remote.kind = "return"

====
